---- MODULE Spec2Model ----
(***************************************************************************)
(* A model of chess-core: Pos / Vector geometry, the static move           *)
(* templates, the RawBoard grid, the pseudo-legal and legality-filtered    *)
(* move generators, Board::apply, is_king_check and game_condition.        *)
(*                                                                         *)
(* Every operation is modelled as a function from the receiver (`self`)    *)
(* and its arguments to the receiver after the call and the value          *)
(* returned, following the statements of the Rust source in order.         *)
(***************************************************************************)
EXTENDS Integers, Sequences, FiniteSets, TLC

(***************************************************************************)
(* Bounds of the exploration                                               *)
(***************************************************************************)
\* number of operations a caller performs on one board
MaxOps == 1
\* number of plies of a game
MaxPly == 4
\* Pos::new / Pos::try_from are probed with coordinates in -CoordSlack .. 7 + CoordSlack
CoordSlack == 2

(***************************************************************************)
(* Option / Result values                                                  *)
(***************************************************************************)
None == <<"None">>
Some(v) == <<"Some", v>>
Ok(v) == <<"Ok", v>>
Err(e) == <<"Err", e>>
Unit == <<>>
\* the outcome of a call that unwinds (Result::unwrap on an Err)
Panic == <<"Panic">>

IsSome(o) == o[1] = "Some"
IsOk(r) == r[1] = "Ok"
Unwrap(o) == o[2]

\* error.rs
OutOfBounds == <<"OutOfBounds">>
NoPiece == <<"NoPiece">>
InvalidDiff(d) == <<"InvalidDiff", d>>

(***************************************************************************)
(* pieces.rs                                                               *)
(***************************************************************************)
PieceType == {"King", "Queen", "Rook", "Bishop", "Knight", "Pawn"}
Color == {"Black", "White"}

\* Color::dir with both arms giving 1
dir_AlwaysOne(color) == 1

dir(color) == IF color = "White" THEN 1 ELSE -1

is_capture(ty) == ty # "Move"
is_normal(ty) == ty # "Capture"

\* math.rs
Vector(x, y) == [x |-> x, y |-> y]
VAdd(a, b) == [x |-> a.x + b.x, y |-> a.y + b.y]
VMul(a, k) == [x |-> a.x * k, y |-> a.y * k]

VMove(piece, x, y, ty, dist) ==
    [piece |-> piece, del |-> Vector(x, y), ty |-> ty, dist |-> dist]

\* PAWN_MOVES with the forward step left at the default MoveCapture
PAWN_MOVES_ForwardCapture ==
    << VMove("Pawn", 0, 1, "MoveCapture", 1), VMove("Pawn", 0, 2, "Move", 1),
       VMove("Pawn", 1, 1, "Capture", 1), VMove("Pawn", -1, 1, "Capture", 1) >>

\* PAWN_MOVES with the two-square template typed Capture
PAWN_MOVES_DoubleCapture ==
    << VMove("Pawn", 0, 1, "Move", 1), VMove("Pawn", 0, 2, "Capture", 1),
       VMove("Pawn", 1, 1, "Capture", 1), VMove("Pawn", -1, 1, "Capture", 1) >>

\* PAWN_MOVES without the two-square template
PAWN_MOVES_NoDouble ==
    << VMove("Pawn", 0, 1, "Move", 1),
       VMove("Pawn", 1, 1, "Capture", 1), VMove("Pawn", -1, 1, "Capture", 1) >>

PAWN_MOVES ==
    << VMove("Pawn", 0, 1, "Move", 1), VMove("Pawn", 0, 2, "Move", 1),
       VMove("Pawn", 1, 1, "Capture", 1), VMove("Pawn", -1, 1, "Capture", 1) >>

KNIGHT_MOVES ==
    << VMove("Knight", 1, -2, "MoveCapture", 1), VMove("Knight", 1, 2, "MoveCapture", 1),
       VMove("Knight", -1, -2, "MoveCapture", 1), VMove("Knight", -1, 2, "MoveCapture", 1),
       VMove("Knight", 2, -1, "MoveCapture", 1), VMove("Knight", 2, 1, "MoveCapture", 1),
       VMove("Knight", -2, -1, "MoveCapture", 1), VMove("Knight", -2, 1, "MoveCapture", 1) >>

BISHOP_MOVES ==
    << VMove("Bishop", 1, 1, "MoveCapture", 8), VMove("Bishop", 1, -1, "MoveCapture", 8),
       VMove("Bishop", -1, 1, "MoveCapture", 8), VMove("Bishop", -1, -1, "MoveCapture", 8) >>

ROOK_MOVES ==
    << VMove("Rook", 1, 0, "MoveCapture", 8), VMove("Rook", -1, 0, "MoveCapture", 8),
       VMove("Rook", 0, 1, "MoveCapture", 8), VMove("Rook", 0, -1, "MoveCapture", 8) >>

QUEEN_MOVES ==
    << VMove("Queen", 1, 0, "MoveCapture", 8), VMove("Queen", -1, 0, "MoveCapture", 8),
       VMove("Queen", 0, 1, "MoveCapture", 8), VMove("Queen", 0, -1, "MoveCapture", 8),
       VMove("Queen", 1, 1, "MoveCapture", 8), VMove("Queen", 1, -1, "MoveCapture", 8),
       VMove("Queen", -1, 1, "MoveCapture", 8), VMove("Queen", -1, -1, "MoveCapture", 8) >>

\* KING_MOVES with the distance left at the default of 8
KING_MOVES_NoDist ==
    << VMove("King", 1, 0, "MoveCapture", 8), VMove("King", -1, 0, "MoveCapture", 8),
       VMove("King", 0, 1, "MoveCapture", 8), VMove("King", 0, -1, "MoveCapture", 8),
       VMove("King", 1, 1, "MoveCapture", 8), VMove("King", 1, -1, "MoveCapture", 8),
       VMove("King", -1, 1, "MoveCapture", 8), VMove("King", -1, -1, "MoveCapture", 8) >>

KING_MOVES ==
    << VMove("King", 1, 0, "MoveCapture", 1), VMove("King", -1, 0, "MoveCapture", 1),
       VMove("King", 0, 1, "MoveCapture", 1), VMove("King", 0, -1, "MoveCapture", 1),
       VMove("King", 1, 1, "MoveCapture", 1), VMove("King", 1, -1, "MoveCapture", 1),
       VMove("King", -1, 1, "MoveCapture", 1), VMove("King", -1, -1, "MoveCapture", 1) >>

get_moves(pt) ==
    CASE pt = "Pawn" -> PAWN_MOVES
      [] pt = "Knight" -> KNIGHT_MOVES
      [] pt = "Bishop" -> BISHOP_MOVES
      [] pt = "Rook" -> ROOK_MOVES
      [] pt = "Queen" -> QUEEN_MOVES
      [] pt = "King" -> KING_MOVES

(***************************************************************************)
(* board.rs: Pos                                                           *)
(***************************************************************************)
\* struct Pos(usize, usize): the pair <<x, y>>
Pos(x, y) == <<x, y>>

\* `as usize` / `as i32` keep the value on the range the model draws from
\* (0 .. 7 + CoordSlack); a usize is never negative.
Pos_new(x, y) ==
    IF x < 8 /\ y < 8 THEN Ok(Pos(x, y)) ELSE Err(OutOfBounds)

\* try_from without the test for negative components
try_from_NoLowerBound(v) ==
    IF v.x < 8 /\ v.y < 8
    THEN Ok(Pos(v.x, v.y))
    ELSE Err(OutOfBounds)

try_from(v) ==
    IF v.x >= 0 /\ v.y >= 0 /\ v.x < 8 /\ v.y < 8
    THEN Ok(Pos(v.x, v.y))
    ELSE Err(OutOfBounds)

into(p) == Vector(p[1], p[2])

Squares == {Pos(x, y) : x \in 0..7, y \in 0..7}

(***************************************************************************)
(* board.rs: RawBoard, data[y][x]                                          *)
(***************************************************************************)
RawBoard_default == [y \in 0..7 |-> [x \in 0..7 |-> None]]

RawBoard_set(data, p, piece, color) ==
    [data EXCEPT ![p[2]][p[1]] = Some(<<piece, color>>)]

\* std::mem::replace: the grid after, and the previous occupant
RawBoard_replace(data, p, piece) ==
    [data |-> [data EXCEPT ![p[2]][p[1]] = piece], old |-> data[p[2]][p[1]]]

RawBoard_remove(data, p) ==
    [data |-> [data EXCEPT ![p[2]][p[1]] = None], old |-> data[p[2]][p[1]]]

RawBoard_get(data, p) ==
    IF IsSome(data[p[2]][p[1]]) THEN Ok(Unwrap(data[p[2]][p[1]])) ELSE Err(NoPiece)

\* iter(): the outer index runs over data (named x in the source), the inner
\* one over a row (named y), and each occupied cell yields (Pos(inner, outer), pt, color)
IterCells(data) ==
    [k \in 1..64 |->
        LET outer == (k - 1) \div 8
            inner == (k - 1) % 8
        IN  <<Pos(inner, outer), data[outer][inner]>>]

IterOccupied(cell) == IsSome(cell[2])

RawBoard_iter(data) ==
    LET occ == SelectSeq(IterCells(data), IterOccupied)
    IN  [i \in 1..Len(occ) |-> <<occ[i][1], Unwrap(occ[i][2])[1], Unwrap(occ[i][2])[2]>>]

(***************************************************************************)
(* board.rs: Diff                                                          *)
(***************************************************************************)
Move == <<"Move">>
Capture(cap) == <<"Capture", cap>>
Promote(piece) == <<"Promote", piece>>

Diff(ty, from, to) == [ty |-> ty, from |-> from, to |-> to]

\* a call: the receiver after it and the value it returned
Call(self, ret) == [self |-> self, ret |-> ret]
\* a value handed back by a call that did not unwind
Returned(v) == <<"Returned", v>>
IsPanic(r) == r[1] = "Panic"

(***************************************************************************)
(* Board::get_possible_moves_unchecked                                     *)
(***************************************************************************)
\* the closure of .map() taking every non-capturable victim for an empty square
StepDiff_MoveOntoOwn(data, old_pos, color, ty, p) ==
    LET victim == RawBoard_get(data, p)
    IN  IF IsOk(victim) /\ is_capture(ty) /\ Unwrap(victim)[2] # color
        THEN Some(Diff(Capture(p), old_pos, p))
        ELSE IF is_normal(ty)
             THEN Some(Diff(Move, old_pos, p))
             ELSE None

\* the closure of .map() naming the mover's square as the captured one
StepDiff_CapFrom(data, old_pos, color, ty, p) ==
    LET victim == RawBoard_get(data, p)
    IN  IF IsOk(victim)
        THEN IF is_capture(ty) /\ Unwrap(victim)[2] # color
             THEN Some(Diff(Capture(old_pos), old_pos, p))
             ELSE None
        ELSE IF is_normal(ty)
             THEN Some(Diff(Move, old_pos, p))
             ELSE None

\* the closure of .map(): the diff for one target square, and its occupant
StepDiff(data, old_pos, color, ty, p) ==
    LET victim == RawBoard_get(data, p)
    IN  IF IsOk(victim)
        THEN IF is_capture(ty) /\ Unwrap(victim)[2] # color
             THEN Some(Diff(Capture(p), old_pos, p))
             ELSE None
        ELSE IF is_normal(ty)
             THEN Some(Diff(Move, old_pos, p))
             ELSE None

\* the direction scan without take_while: it goes on behind an occupied square
RECURSIVE DirScan_Through(_, _, _, _, _, _, _, _)
DirScan_Through(data, old_pos, color, del, ty, k, dist, no_captures) ==
    IF k > dist THEN <<>>
    ELSE LET t == try_from(VAdd(into(old_pos), VMul(del, k)))
         IN  IF ~IsOk(t)
             THEN DirScan_Through(data, old_pos, color, del, ty, k + 1, dist, no_captures)
             ELSE LET d == StepDiff(data, old_pos, color, ty, Unwrap(t))
                  IN  (IF IsSome(d) THEN <<Unwrap(d)>> ELSE <<>>)
                      \o DirScan_Through(data, old_pos, color, del, ty, k + 1, dist, TRUE)

\* (1..=dist).flat_map(try_from).map(..).take_while(..).flat_map(diff):
\* an off-board step yields nothing, take_while lets the first occupied
\* square through and stops at the element after it
RECURSIVE DirScan(_, _, _, _, _, _, _, _)
DirScan(data, old_pos, color, del, ty, k, dist, no_captures) ==
    IF k > dist THEN <<>>
    ELSE LET t == try_from(VAdd(into(old_pos), VMul(del, k)))
         IN  IF ~IsOk(t)
             THEN DirScan(data, old_pos, color, del, ty, k + 1, dist, no_captures)
             ELSE IF ~no_captures THEN <<>>
             ELSE LET p == Unwrap(t)
                      d == StepDiff(data, old_pos, color, ty, p)
                  IN  (IF IsSome(d) THEN <<Unwrap(d)>> ELSE <<>>)
                      \o DirScan(data, old_pos, color, del, ty, k + 1, dist,
                                 ~IsOk(RawBoard_get(data, p)))

\* moves.iter().flat_map(..) over the templates lo..hi in order (the slice is
\* halved to keep the evaluation shallow)
RECURSIVE MovesFrom(_, _, _, _, _, _)
MovesFrom(data, old_pos, color, moves, lo, hi) ==
    IF lo > hi THEN <<>>
    ELSE IF lo = hi
    THEN DirScan(data, old_pos, color, VMul(moves[lo].del, dir(color)),
                 moves[lo].ty, 1, moves[lo].dist, TRUE)
    ELSE MovesFrom(data, old_pos, color, moves, lo, (lo + hi) \div 2)
         \o MovesFrom(data, old_pos, color, moves, (lo + hi) \div 2 + 1, hi)

\* get_possible_moves_unchecked without the early return on an empty square
get_possible_moves_unchecked_NoGuard(data, pos) ==
    LET g == RawBoard_get(data, pos)
    IN  IF ~IsOk(g) THEN Some(<<>>)
        ELSE Some(MovesFrom(data, pos, Unwrap(g)[2], get_moves(Unwrap(g)[1]), 1,
                            Len(get_moves(Unwrap(g)[1]))))

get_possible_moves_unchecked(data, pos) ==
    LET g == RawBoard_get(data, pos)
    IN  IF ~IsOk(g) THEN None
        ELSE Some(MovesFrom(data, pos, Unwrap(g)[2], get_moves(Unwrap(g)[1]), 1,
                            Len(get_moves(Unwrap(g)[1]))))

(***************************************************************************)
(* Board::apply                                                            *)
(***************************************************************************)
\* the Move arm writing the piece into the board as it was before the removal
apply_Move_KeepFrom(data, from, to) ==
    LET r == RawBoard_remove(data, from)
    IN  IF ~IsSome(r.old) THEN Call(r.data, Err(NoPiece))
        ELSE IF IsOk(RawBoard_get(r.data, to))
        THEN Call(r.data, Err(InvalidDiff("CaptureOnMoveTy")))
        ELSE Call(RawBoard_set(data, to, Unwrap(r.old)[1], Unwrap(r.old)[2]), Ok(Unit))

apply_Move(data, from, to) ==
    LET r == RawBoard_remove(data, from)
    IN  IF ~IsSome(r.old) THEN Call(r.data, Err(NoPiece))
        ELSE IF IsOk(RawBoard_get(r.data, to))
        THEN Call(r.data, Err(InvalidDiff("CaptureOnMoveTy")))
        ELSE Call(RawBoard_set(r.data, to, Unwrap(r.old)[1], Unwrap(r.old)[2]), Ok(Unit))

\* the Capture arm putting the victim's piece on `to` instead of the mover's
apply_Capture_VictimStays(data, from, to, cap) ==
    LET r == RawBoard_remove(data, from)
    IN  IF ~IsSome(r.old) THEN Call(r.data, Err(NoPiece))
        ELSE LET c == RawBoard_replace(r.data, cap, None)
             IN  IF ~IsSome(c.old)
                 THEN Call(c.data, Err(InvalidDiff("MoveOnCaptureTy")))
                 ELSE Call(RawBoard_set(c.data, to, Unwrap(c.old)[1], Unwrap(c.old)[2]),
                           Ok(Unit))

apply_Capture(data, from, to, cap) ==
    LET r == RawBoard_remove(data, from)
    IN  IF ~IsSome(r.old) THEN Call(r.data, Err(NoPiece))
        ELSE LET c == RawBoard_replace(r.data, cap, None)
             IN  IF ~IsSome(c.old)
                 THEN Call(c.data, Err(InvalidDiff("MoveOnCaptureTy")))
                 ELSE Call(RawBoard_set(c.data, to, Unwrap(r.old)[1], Unwrap(r.old)[2]),
                           Ok(Unit))

PromotionRow(color) == ((1 - dir(color)) \div 2) * 5 + 1
PromotionTarget(color) == ((1 - dir(color)) \div 2) * 8

apply_Promote(data, from, to, piece) ==
    LET r == RawBoard_replace(data, from, None)
    IN  IF ~IsSome(r.old) THEN Call(r.data, Err(NoPiece))
        ELSE IF Unwrap(r.old)[1] # "Pawn"
        THEN Call(r.data, Err(InvalidDiff("InvalidPromotionPiece")))
        ELSE LET color == Unwrap(r.old)[2]
             IN  IF into(from).y = PromotionRow(color) /\ into(to).y = PromotionTarget(color)
                 THEN Call(RawBoard_set(r.data, to, piece, color), Ok(Unit))
                 ELSE Call(r.data, Err(InvalidDiff("InvalidPromotionRow")))

apply(data, d) ==
    CASE d.ty[1] = "Move" -> apply_Move(data, d.from, d.to)
      [] d.ty[1] = "Capture" -> apply_Capture(data, d.from, d.to, d.ty[2])
      [] d.ty[1] = "Promote" -> apply_Promote(data, d.from, d.to, d.ty[2])

(***************************************************************************)
(* Board::is_king_check                                                    *)
(***************************************************************************)
\* HitsKing without the test of the piece type
HitsKing_AnyPiece(data, color, diffs) ==
    \E j \in 1..Len(diffs) :
        IsOk(RawBoard_get(data, diffs[j].to))
        /\ Unwrap(RawBoard_get(data, diffs[j].to))[2] = color

\* .flat_map(|Diff { to, .. }| self.get(to)).any(|(pt, c)| pt == King && c == color)
HitsKing(data, color, diffs) ==
    \E j \in 1..Len(diffs) :
        IsOk(RawBoard_get(data, diffs[j].to))
        /\ Unwrap(RawBoard_get(data, diffs[j].to)) = <<"King", color>>

RECURSIVE CheckScan(_, _, _, _, _)

\* one element of the iterator: filtered out when of the colour itself;
\* m is get_possible_moves_unchecked(pos), unwrapped
CheckPiece(data, color, it, m) ==
    IF ~(it[3] # color) THEN Returned(FALSE)
    ELSE IF ~IsSome(m) THEN Panic
    ELSE Returned(HitsKing(data, color, Unwrap(m)))

\* .any() stops at the first hit; l is the outcome of the elements before mid
CheckRest(data, color, its, mid, hi, l) ==
    IF IsPanic(l) THEN l
    ELSE IF l[2] THEN l
    ELSE CheckScan(data, color, its, mid, hi)

\* self.board.iter().filter(|(_, _, c)| c != &color) ... .any(..) over the
\* elements lo..hi in order (the sequence is halved to keep the evaluation shallow)
CheckScan(data, color, its, lo, hi) ==
    IF lo > hi THEN Returned(FALSE)
    ELSE IF lo = hi
    THEN CheckPiece(data, color, its[lo], get_possible_moves_unchecked(data, its[lo][1]))
    ELSE CheckRest(data, color, its, (lo + hi) \div 2 + 1, hi,
                   CheckScan(data, color, its, lo, (lo + hi) \div 2))

\* its is self.board.iter(), collected once
CheckAll(data, color, its) == CheckScan(data, color, its, 1, Len(its))

is_king_check(data, color) == CheckAll(data, color, RawBoard_iter(data))

(***************************************************************************)
(* Board::get_possible_moves                                               *)
(***************************************************************************)
\* !temp.is_king_check(color), c being what is_king_check returned
FilterVerdict(data, c) ==
    IF IsPanic(c) THEN Call(data, Panic) ELSE Call(data, Returned(~c[2]))

\* the filter closure asking for check on the board itself, not on `temp`
FilterKeepOn_OnSelf(data, color, temp) ==
    IF ~IsOk(temp.ret) THEN Call(data, Panic)
    ELSE FilterVerdict(data, is_king_check(data, color))

\* the filter closure applying the diff to the board itself, not to a copy
FilterKeepOn_InPlace(data, color, temp) ==
    IF ~IsOk(temp.ret) THEN Call(temp.self, Panic)
    ELSE FilterVerdict(temp.self, is_king_check(temp.self, color))

\* the filter closure that keeps every diff that applies
FilterKeepOn_KeepAll(data, color, temp) ==
    IF ~IsOk(temp.ret) THEN Call(data, Panic)
    ELSE Call(data, Returned(TRUE))

\* temp.apply(x).unwrap(); !temp.is_king_check(color)
\* where temp is the outcome of apply on the copy; self is left as it is
FilterKeepOn(data, color, temp) ==
    IF ~IsOk(temp.ret) THEN Call(data, Panic)
    ELSE FilterVerdict(data, is_king_check(temp.self, color))

\* the closure of .filter(): let mut temp = Self { board: self.board }
FilterKeep(data, color, x) == FilterKeepOn(data, color, apply(data, x))

\* the kept elements of a later stretch of the sequence behind those of an
\* earlier stretch l; a panic of the closure ends the whole iteration
FilterJoin(l, r) ==
    IF IsPanic(r.ret) THEN r
    ELSE Call(r.self, Returned(l.ret[2] \o r.ret[2]))

\* one element: it is yielded when the closure answers true
FilterOne(x, k) ==
    IF IsPanic(k.ret) THEN Call(k.self, Panic)
    ELSE Call(k.self, Returned(IF k.ret[2] THEN <<x>> ELSE <<>>))

RECURSIVE FilterFrom(_, _, _, _, _)

\* l is the outcome of the stretch before mid; self is threaded through
FilterStep(color, diffs, mid, hi, l) ==
    IF IsPanic(l.ret) THEN l
    ELSE FilterJoin(l, FilterFrom(l.self, color, diffs, mid, hi))

\* the filtered elements lo..hi, consumed in order (the sequence is halved to
\* keep the evaluation shallow)
FilterFrom(data, color, diffs, lo, hi) ==
    IF lo > hi THEN Call(data, Returned(<<>>))
    ELSE IF lo = hi THEN FilterOne(diffs[lo], FilterKeep(data, color, diffs[lo]))
    ELSE FilterStep(color, diffs, (lo + hi) \div 2 + 1, hi,
                    FilterFrom(data, color, diffs, lo, (lo + hi) \div 2))

FilterSome(f) ==
    IF IsPanic(f.ret) THEN f ELSE Call(f.self, Returned(Some(f.ret[2])))

\* diffs.map(move |diffs| diffs.filter(..))
FilterAll(data, color, diffs) ==
    IF ~IsSome(diffs) THEN Call(data, Returned(None))
    ELSE FilterSome(FilterFrom(data, color, Unwrap(diffs), 1, Len(Unwrap(diffs))))

get_possible_moves(data, pos) ==
    IF ~IsOk(RawBoard_get(data, pos)) THEN Call(data, Returned(None))
    ELSE FilterAll(data, Unwrap(RawBoard_get(data, pos))[2],
                   get_possible_moves_unchecked(data, pos))

(***************************************************************************)
(* Board::game_condition                                                   *)
(***************************************************************************)
RECURSIVE AnyKept(_, _, _, _, _)

\* .any(|_| true) stops at the first kept element; l is the outcome of the
\* elements before mid
AnyStep(color, diffs, mid, hi, l) ==
    IF IsPanic(l.ret) THEN l
    ELSE IF l.ret[2] THEN l
    ELSE AnyKept(l.self, color, diffs, mid, hi)

\* does the filtered sequence of one square yield an element among lo..hi
AnyKept(data, color, diffs, lo, hi) ==
    IF lo > hi THEN Call(data, Returned(FALSE))
    ELSE IF lo = hi THEN FilterKeep(data, color, diffs[lo])
    ELSE AnyStep(color, diffs, (lo + hi) \div 2 + 1, hi,
                 AnyKept(data, color, diffs, lo, (lo + hi) \div 2))

RECURSIVE HasMovesScan(_, _, _, _, _)

\* l is the outcome of the pieces before mid
HasMovesNext(color, its, mid, hi, l) ==
    IF IsPanic(l.ret) THEN l
    ELSE IF l.ret[2] THEN l
    ELSE HasMovesScan(l.self, color, its, mid, hi)

\* one element of the iterator: filtered out when of the other colour;
\* self.get_possible_moves(pos).unwrap(), m being the pseudo-legal diffs of pos
HasMovesPiece(data, color, it, m) ==
    IF ~(it[3] = color) THEN Call(data, Returned(FALSE))
    ELSE IF ~IsSome(m) THEN Call(data, Panic)
    ELSE AnyKept(data, it[3], Unwrap(m), 1, Len(Unwrap(m)))

\* self.board.iter().filter(|(_, _, c)| c == &color).flat_map(..).any(|_| true)
\* over the elements lo..hi in order
HasMovesScan(data, color, its, lo, hi) ==
    IF lo > hi THEN Call(data, Returned(FALSE))
    ELSE IF lo = hi
    THEN HasMovesPiece(data, color, its[lo], get_possible_moves_unchecked(data, its[lo][1]))
    ELSE HasMovesNext(color, its, (lo + hi) \div 2 + 1, hi,
                      HasMovesScan(data, color, its, lo, (lo + hi) \div 2))

\* the match with the arms of Check and Mate exchanged
Classify_Swapped(is_check, has_moves) ==
    CASE is_check /\ has_moves -> "Mate"
      [] is_check /\ ~has_moves -> "Check"
      [] ~is_check /\ has_moves -> "Safe"
      [] ~is_check /\ ~has_moves -> "Stale"

Classify(is_check, has_moves) ==
    CASE is_check /\ has_moves -> "Check"
      [] is_check /\ ~has_moves -> "Mate"
      [] ~is_check /\ has_moves -> "Safe"
      [] ~is_check /\ ~has_moves -> "Stale"

ConditionOf(h, c) ==
    IF IsPanic(c) THEN Call(h.self, Panic)
    ELSE Call(h.self, Returned(Classify(c[2], h.ret[2])))

\* h is the outcome of computing has_moves
ConditionAfter(color, h) ==
    IF IsPanic(h.ret) THEN h
    ELSE ConditionOf(h, is_king_check(h.self, color))

\* has_moves, its being self.board.iter(), collected once
HasMoves(data, color, its) == HasMovesScan(data, color, its, 1, Len(its))

game_condition(data, color) ==
    ConditionAfter(color, HasMoves(data, color, RawBoard_iter(data)))

(***************************************************************************)
(* Boards a caller starts from: Board::new() and Board::with(grid)         *)
(***************************************************************************)
RECURSIVE SetAll(_, _, _)
SetAll(data, places, i) ==
    IF i > Len(places) THEN data
    ELSE SetAll(RawBoard_set(data, places[i][1], places[i][3], places[i][2]), places, i + 1)

\* make_board!( ((x, y) Color Piece) ... )
make_board(places) == SetAll(RawBoard_default, places, 1)

RECURSIVE SetPawns(_, _)
SetPawns(data, i) ==
    IF i >= 8 THEN data
    ELSE SetPawns(RawBoard_set(RawBoard_set(data, Pos(i, 1), "Pawn", "White"),
                               Pos(i, 6), "Pawn", "Black"), i + 1)

Board_new ==
    SetPawns(make_board(<<
        <<Pos(0, 0), "White", "Rook">>, <<Pos(7, 0), "White", "Rook">>,
        <<Pos(1, 0), "White", "Knight">>, <<Pos(6, 0), "White", "Knight">>,
        <<Pos(2, 0), "White", "Bishop">>, <<Pos(5, 0), "White", "Bishop">>,
        <<Pos(3, 0), "White", "Queen">>, <<Pos(4, 0), "White", "King">>,
        <<Pos(0, 7), "Black", "Rook">>, <<Pos(7, 7), "Black", "Rook">>,
        <<Pos(1, 7), "Black", "Knight">>, <<Pos(6, 7), "Black", "Knight">>,
        <<Pos(2, 7), "Black", "Bishop">>, <<Pos(5, 7), "Black", "Bishop">>,
        <<Pos(3, 7), "Black", "Queen">>, <<Pos(4, 7), "Black", "King">> >>), 0)

\* the grids of the tests gc_pass_1 .. gc_pass_8
Board_gc1 == make_board(<< >>)
Board_gc2 == make_board(<< <<Pos(0, 0), "White", "King">>, <<Pos(0, 2), "Black", "Rook">> >>)
Board_gc3 == make_board(<< <<Pos(0, 0), "White", "King">>, <<Pos(0, 1), "Black", "Pawn">>,
                           <<Pos(0, 7), "Black", "Rook">> >>)
Board_gc4 == make_board(<< <<Pos(0, 0), "White", "King">>, <<Pos(0, 1), "White", "Pawn">>,
                           <<Pos(0, 7), "Black", "Rook">> >>)
Board_gc5 == make_board(<< <<Pos(0, 0), "White", "King">>, <<Pos(0, 1), "White", "Pawn">>,
                           <<Pos(0, 7), "Black", "Rook">>, <<Pos(1, 7), "Black", "Queen">> >>)
Board_gc6 == make_board(<< <<Pos(0, 0), "White", "King">>, <<Pos(0, 7), "Black", "Rook">>,
                           <<Pos(1, 7), "Black", "Queen">> >>)
Board_gc7 == make_board(<< <<Pos(1, 0), "White", "King">>, <<Pos(0, 7), "Black", "Rook">>,
                           <<Pos(1, 7), "Black", "Queen">> >>)
Board_gc8 == make_board(<< <<Pos(0, 0), "White", "King">>, <<Pos(0, 7), "White", "Queen">>,
                           <<Pos(0, 6), "Black", "Rook">>, <<Pos(1, 6), "Black", "Rook">> >>)
\* pawns one step from the far rank, and pawns on their own second rank
Board_far == make_board(<< <<Pos(0, 6), "White", "Pawn">>, <<Pos(0, 1), "Black", "Pawn">>,
                           <<Pos(7, 0), "White", "King">>, <<Pos(7, 7), "Black", "King">> >>)
Board_near == make_board(<< <<Pos(0, 1), "White", "Pawn">>, <<Pos(0, 6), "Black", "Pawn">>,
                            <<Pos(7, 0), "White", "King">>, <<Pos(7, 7), "Black", "King">> >>)

\* a middle-game grid: pawns facing each other, a knight, a bishop, a rook and
\* a queen with own and opposing pieces on their lines
Board_mid == make_board(<<
    <<Pos(4, 0), "White", "King">>, <<Pos(4, 7), "Black", "King">>,
    <<Pos(3, 0), "White", "Queen">>, <<Pos(1, 2), "White", "Bishop">>,
    <<Pos(2, 4), "White", "Knight">>, <<Pos(3, 3), "White", "Pawn">>,
    <<Pos(6, 3), "White", "Pawn">>, <<Pos(3, 4), "Black", "Pawn">>,
    <<Pos(4, 4), "Black", "Pawn">>, <<Pos(4, 3), "Black", "Knight">>,
    <<Pos(0, 5), "Black", "Rook">> >>)
\* two kings of one colour and none of the other
Board_kings == make_board(<< <<Pos(0, 0), "White", "King">>, <<Pos(0, 7), "White", "King">>,
                             <<Pos(1, 6), "Black", "Queen">> >>)

Boards == {Board_new, Board_gc1, Board_gc2, Board_gc3, Board_gc4, Board_gc5,
           Board_gc6, Board_gc7, Board_gc8, Board_far, Board_near, Board_mid, Board_kings}

(***************************************************************************)
(* Arguments the caller passes                                             *)
(***************************************************************************)
\* squares named by hand-built diffs
ProbeSquares == {Pos(0, 0), Pos(0, 1), Pos(0, 6), Pos(0, 7)}
PromotePieces == {"Queen", "Knight"}

HandDiffs ==
    {Diff(Move, f, t) : f \in ProbeSquares, t \in ProbeSquares}
    \cup {Diff(Capture(t), f, t) : f \in ProbeSquares, t \in ProbeSquares}
    \cup {Diff(Capture(f), f, t) : f \in ProbeSquares, t \in ProbeSquares}
    \cup {Diff(Capture(c), f, f) : f \in ProbeSquares, c \in ProbeSquares}
    \cup {Diff(Promote(p[1]), p[2], p[3]) : p \in PromotePieces \X ProbeSquares \X ProbeSquares}

SeqRange(s) == {s[i] : i \in 1..Len(s)}

\* squares the caller asks moves for: every piece, and the hand-picked squares
QuerySquares(data) ==
    {q \in Squares : IsOk(RawBoard_get(data, q))} \cup ProbeSquares

\* every diff the pseudo-legal generator offers on a grid
GeneratedDiffs(data) ==
    UNION {SeqRange(Unwrap(get_possible_moves_unchecked(data, p))) :
           p \in {q \in Squares : IsOk(RawBoard_get(data, q))}}

(***************************************************************************)
(* State                                                                   *)
(***************************************************************************)
VARIABLES
    board,  \* Board.board: the grid data[y][x]
    prev,   \* the grid before the last operation
    op,     \* the last operation
    arg,    \* its argument
    ret,    \* what it returned
    nops    \* operations performed so far

vars == <<board, prev, op, arg, ret, nops>>

Init ==
    /\ board \in Boards
    /\ prev = board
    /\ op = "new"
    /\ arg = Unit
    /\ ret = Unit
    /\ nops = 0

Done(c, name, a) ==
    /\ board' = c.self
    /\ prev' = board
    /\ op' = name
    /\ arg' = a
    /\ ret' = c.ret
    /\ nops' = nops + 1

Apply ==
    /\ nops < MaxOps
    /\ \E d \in HandDiffs \cup GeneratedDiffs(board) :
          Done(apply(board, d), "apply", d)

Get ==
    /\ nops < MaxOps
    /\ \E pos \in ProbeSquares :
          Done(Call(board, RawBoard_get(board, pos)), "get", pos)

GetPossibleMoves ==
    /\ nops < MaxOps
    /\ \E pos \in QuerySquares(board) :
          Done(get_possible_moves(board, pos), "get_possible_moves", pos)

GetPossibleMovesUnchecked ==
    /\ nops < MaxOps
    /\ \E pos \in QuerySquares(board) :
          Done(Call(board, Returned(get_possible_moves_unchecked(board, pos))),
               "get_possible_moves_unchecked", pos)

IsKingCheck ==
    /\ nops < MaxOps
    /\ \E color \in Color :
          Done(Call(board, is_king_check(board, color)), "is_king_check", color)

GameCondition ==
    /\ nops < MaxOps
    /\ \E color \in Color :
          Done(game_condition(board, color), "game_condition", color)

Next ==
    \/ Apply
    \/ Get
    \/ GetPossibleMoves
    \/ GetPossibleMovesUnchecked
    \/ IsKingCheck
    \/ GameCondition

Spec == Init /\ [][Next]_vars

(***************************************************************************)
(* Pos::new, Pos::try_from and Pos::into on their own: the input is drawn  *)
(* in the initial state and the actions apply the functions to it          *)
(***************************************************************************)
Coords == (0 - CoordSlack)..(7 + CoordSlack)

InitPos ==
    /\ board = RawBoard_default
    /\ prev = board
    /\ op = "input"
    /\ arg \in {Vector(x, y) : x \in Coords, y \in Coords}
    /\ ret = Unit
    /\ nops = 0

\* the arguments of Pos::new are usize
PosNew ==
    /\ op = "input"
    /\ arg.x >= 0 /\ arg.y >= 0
    /\ op' = "Pos_new"
    /\ ret' = Pos_new(arg.x, arg.y)
    /\ nops' = nops + 1
    /\ UNCHANGED <<board, prev, arg>>

PosTryFrom ==
    /\ op = "input"
    /\ op' = "try_from"
    /\ ret' = try_from(arg)
    /\ nops' = nops + 1
    /\ UNCHANGED <<board, prev, arg>>

\* Pos::try_from(p.into()) for a position p that a constructor returned
PosIntoTryFrom ==
    /\ op \in {"Pos_new", "try_from"}
    /\ IsOk(ret)
    /\ op' = "into_try_from"
    /\ arg' = Unwrap(ret)
    /\ ret' = try_from(into(Unwrap(ret)))
    /\ nops' = nops + 1
    /\ UNCHANGED <<board, prev>>

NextPos ==
    \/ PosNew
    \/ PosTryFrom
    \/ PosIntoTryFrom

SpecPos == InitPos /\ [][NextPos]_vars

(***************************************************************************)
(* Vocabulary of the properties                                            *)
(***************************************************************************)
At(data, p) == data[p[2]][p[1]]
Occupied(data, p) == At(data, p) # None
ColorAt(data, p) == At(data, p)[2][2]
TypeAt(data, p) == At(data, p)[2][1]
Other(color) == IF color = "White" THEN "Black" ELSE "White"

PseudoLegal(data, p) == SeqRange(Unwrap(get_possible_moves_unchecked(data, p)))

\* some piece of the other colour has a pseudo-legal diff onto color's king
Attacked(data, color) ==
    \E p \in Squares :
        /\ Occupied(data, p)
        /\ ColorAt(data, p) = Other(color)
        /\ \E d \in PseudoLegal(data, p) : At(data, d.to) = Some(<<"King", color>>)

\* the pseudo-legal diffs of p after which the mover's king is not attacked
SafeDiffs(data, p) ==
    {d \in PseudoLegal(data, p) :
        /\ IsOk(apply(data, d).ret)
        /\ ~Attacked(apply(data, d).self, ColorAt(data, p))}

HasLegalDiff(data, color) ==
    \E p \in Squares :
        Occupied(data, p) /\ ColorAt(data, p) = color /\ SafeDiffs(data, p) # {}

Queries == {"get", "get_possible_moves", "get_possible_moves_unchecked",
            "is_king_check", "game_condition"}

(***************************************************************************)
(* Properties                                                              *)
(***************************************************************************)

\* C1: whenever Board::apply returns an error, every square of the board
\* holds the same occupant as before the call.
C1_ErrorLeavesBoardUnchanged ==
    (op = "apply" /\ ~IsOk(ret)) => board = prev

\* C2: for an occupied square, get_possible_moves yields exactly the
\* pseudo-legal diffs which, applied to a copy of the board, leave the
\* mover's king unattacked; none of those is dropped and the yielded diffs
\* keep the order of the pseudo-legal sequence.
C2_LegalIsSafePseudoLegal ==
    (op = "get_possible_moves" /\ Occupied(prev, arg)) =>
        /\ ret[1] = "Returned"
        /\ IsSome(ret[2])
        /\ SeqRange(Unwrap(ret[2])) = SafeDiffs(prev, arg)
        /\ Len(Unwrap(ret[2])) = Cardinality(SafeDiffs(prev, arg))
        /\ \A d \in SeqRange(Unwrap(ret[2])) :
              ~Attacked(apply(prev, d).self, ColorAt(prev, arg))

\* a diff of a pinned or checked side was dropped and another one was kept
C2_Witness ==
    /\ op = "get_possible_moves"
    /\ Occupied(prev, arg)
    /\ ret[1] = "Returned"
    /\ IsSome(ret[2])
    /\ Unwrap(ret[2]) # <<>>
    /\ Len(Unwrap(ret[2])) < Cardinality(PseudoLegal(prev, arg))

\* C3: game_condition(color) is Mate iff color's king is attacked and color
\* has no legal diff, Check iff attacked with a legal diff, Stale iff not
\* attacked without a legal diff, Safe iff not attacked with a legal diff;
\* the grid of gc_pass_6 is Mate and the grid of gc_pass_8 is Check for White.
C3_GameCondition ==
    (op = "game_condition") =>
        /\ ret[1] = "Returned"
        /\ (ret[2] = "Mate") <=> (Attacked(prev, arg) /\ ~HasLegalDiff(prev, arg))
        /\ (ret[2] = "Check") <=> (Attacked(prev, arg) /\ HasLegalDiff(prev, arg))
        /\ (ret[2] = "Stale") <=> (~Attacked(prev, arg) /\ ~HasLegalDiff(prev, arg))
        /\ (ret[2] = "Safe") <=> (~Attacked(prev, arg) /\ HasLegalDiff(prev, arg))
        /\ (prev = Board_gc6 /\ arg = "White") => ret[2] = "Mate"
        /\ (prev = Board_gc8 /\ arg = "White") => ret[2] = "Check"

\* the position of gc_pass_8: the king cannot move, the queen rescues it
C3_Witness ==
    /\ op = "game_condition"
    /\ prev = Board_gc8
    /\ arg = "White"
    /\ ret = Returned("Check")
    /\ SafeDiffs(prev, Pos(0, 0)) = {}

\* C4: is_king_check(color) is true exactly when a piece of the other colour
\* has a pseudo-legal diff whose destination holds color's king; it is false
\* on the empty board and when color has no king; on the grid of gc_pass_2
\* White is in check and Black is not.
C4_IsKingCheck ==
    (op = "is_king_check") =>
        /\ ret[1] = "Returned"
        /\ ret[2] <=> Attacked(prev, arg)
        /\ (\A p \in Squares : At(prev, p) # Some(<<"King", arg>>)) => ~ret[2]
        /\ (prev = Board_gc1) => ~ret[2]
        /\ (prev = Board_gc2) => (ret[2] <=> (arg = "White"))

C4_Witness ==
    /\ op = "is_king_check"
    /\ prev = Board_gc2
    /\ arg = "White"
    /\ ret = Returned(TRUE)

\* C5: get, get_possible_moves, get_possible_moves_unchecked, is_king_check
\* and game_condition leave every square of the caller's board as it was.
C5_QueriesLeaveBoard ==
    (op \in Queries) => board = prev

\* a legality filter that tried at least one diff on its copy
C5_Witness ==
    /\ op = "get_possible_moves"
    /\ Occupied(prev, arg)
    /\ PseudoLegal(prev, arg) # {}
    /\ board = prev

\* C6: Board::apply classifies by the board before the call: NoPiece iff the
\* from square is empty; otherwise a Move fails with CaptureOnMoveTy iff the
\* to square is occupied and succeeds otherwise, a Capture fails with
\* MoveOnCaptureTy iff the cap square is empty and succeeds otherwise, a
\* Promote fails with InvalidPromotionPiece iff the piece on from is not a Pawn.
C6_ApplyClassifiesByPriorBoard ==
    (op = "apply") =>
        /\ (ret = Err(NoPiece)) <=> ~Occupied(prev, arg.from)
        /\ (Occupied(prev, arg.from) /\ arg.ty[1] = "Move") =>
              /\ (ret = Err(InvalidDiff("CaptureOnMoveTy"))) <=> Occupied(prev, arg.to)
              /\ ~Occupied(prev, arg.to) => IsOk(ret)
        /\ (Occupied(prev, arg.from) /\ arg.ty[1] = "Capture") =>
              /\ (ret = Err(InvalidDiff("MoveOnCaptureTy"))) <=> ~Occupied(prev, arg.ty[2])
              /\ Occupied(prev, arg.ty[2]) => IsOk(ret)
        /\ (Occupied(prev, arg.from) /\ arg.ty[1] = "Promote") =>
              ((ret = Err(InvalidDiff("InvalidPromotionPiece")))
                  <=> TypeAt(prev, arg.from) # "Pawn")

\* the rank a pawn of a colour promotes on, and the rank it comes from
LastRank(color) == IF color = "White" THEN 7 ELSE 0
BeforeLastRank(color) == IF color = "White" THEN 6 ELSE 1

\* C7: a Promote of a pawn succeeds exactly when it steps from the rank
\* before its last rank onto its last rank (6 to 7 for White, 1 to 0 for
\* Black); then the to square holds (piece, the pawn's colour) and the from
\* square is empty; for any other ranks it fails with InvalidPromotionRow.
C7_PromoteOnLastRank ==
    (/\ op = "apply"
     /\ arg.ty[1] = "Promote"
     /\ Occupied(prev, arg.from)
     /\ TypeAt(prev, arg.from) = "Pawn") =>
        LET color == ColorAt(prev, arg.from)
            steps == arg.from[2] = BeforeLastRank(color) /\ arg.to[2] = LastRank(color)
        IN  /\ IsOk(ret) <=> steps
            /\ IsOk(ret) =>
                  /\ At(board, arg.to) = Some(<<arg.ty[2], color>>)
                  /\ ~Occupied(board, arg.from)
            /\ ~steps => ret = Err(InvalidDiff("InvalidPromotionRow"))

\* C8: on an empty square get_possible_moves and get_possible_moves_unchecked
\* return None, never an error or a panic; on an occupied square both return
\* a finite sequence of diffs.
C8_EmptySquareIsNone ==
    (op \in {"get_possible_moves", "get_possible_moves_unchecked"}) =>
        /\ ret[1] = "Returned"
        /\ ~Occupied(prev, arg) => ret[2] = None
        /\ Occupied(prev, arg) =>
              /\ IsSome(ret[2])
              /\ DOMAIN Unwrap(ret[2]) = 1..Len(Unwrap(ret[2]))
              /\ Len(Unwrap(ret[2])) <= 64

C8_Witness ==
    /\ op = "get_possible_moves_unchecked"
    /\ ~Occupied(prev, arg)
    /\ \E p \in Squares : Occupied(prev, p)
    /\ ret = Returned(None)

\* the pseudo-legal diffs the initial position is to offer from a square
InitialDiffs(p) ==
    LET pt == TypeAt(Board_new, p)
        fwd == dir(ColorAt(Board_new, p))
    IN  CASE pt = "Pawn" ->
                {Diff(Move, p, Pos(p[1], p[2] + fwd)), Diff(Move, p, Pos(p[1], p[2] + 2 * fwd))}
          [] pt = "Knight" ->
                {Diff(Move, p, Pos(p[1] - 1, p[2] + 2 * fwd)),
                 Diff(Move, p, Pos(p[1] + 1, p[2] + 2 * fwd))}
          [] OTHER -> {}

\* C9: in the position of Board::new() every pawn has exactly two Move
\* diffs, one and two squares straight ahead, every knight exactly two Move
\* diffs onto the rank in front of the pawns, and every rook, bishop, queen
\* and king none; for White and, mirrored, for Black.
C9_InitialPosition ==
    (op = "get_possible_moves_unchecked" /\ prev = Board_new /\ Occupied(prev, arg)) =>
        /\ ret[1] = "Returned"
        /\ IsSome(ret[2])
        /\ SeqRange(Unwrap(ret[2])) = InitialDiffs(arg)
        /\ Len(Unwrap(ret[2])) = Cardinality(InitialDiffs(arg))
        /\ (arg = Pos(0, 1)) =>
              SeqRange(Unwrap(ret[2]))
                  = {Diff(Move, Pos(0, 1), Pos(0, 2)), Diff(Move, Pos(0, 1), Pos(0, 3))}
        /\ (arg = Pos(1, 0)) =>
              SeqRange(Unwrap(ret[2]))
                  = {Diff(Move, Pos(1, 0), Pos(0, 2)), Diff(Move, Pos(1, 0), Pos(2, 2))}

\* the black knight on (6, 7) and its two jumps
C9_Witness ==
    /\ op = "get_possible_moves_unchecked"
    /\ prev = Board_new
    /\ arg = Pos(6, 7)
    /\ ret[1] = "Returned"
    /\ IsSome(ret[2])
    /\ SeqRange(Unwrap(ret[2]))
          = {Diff(Move, Pos(6, 7), Pos(5, 5)), Diff(Move, Pos(6, 7), Pos(7, 5))}

OnBoard(x, y) == 0 <= x /\ x < 8 /\ 0 <= y /\ y < 8

\* C10: Pos::new(x, y) and Pos::try_from(Vector{x, y}) succeed iff
\* 0 <= x < 8 and 0 <= y < 8 and fail with OutOfBounds otherwise; for a
\* valid position p, Pos::try_from(p.into()) succeeds and equals p.
C10_PosBounds ==
    /\ (op \in {"Pos_new", "try_from"}) =>
          /\ IsOk(ret) <=> OnBoard(arg.x, arg.y)
          /\ OnBoard(arg.x, arg.y) => ret = Ok(Pos(arg.x, arg.y))
          /\ ~OnBoard(arg.x, arg.y) => ret = Err(OutOfBounds)
    /\ (op = "into_try_from") => ret = Ok(arg)

C10_Witness ==
    /\ op = "try_from"
    /\ arg.x < 0
    /\ arg.y \in 0..7
    /\ ret = Err(OutOfBounds)

(***************************************************************************)
(* A game: from Board::new() the two sides move in turn, each applying a   *)
(* diff that get_possible_moves yielded for one of its own pieces          *)
(***************************************************************************)
\* the files whose pieces the players pick up
PlayFiles == {3, 4, 5}

Turn(n) == IF n % 2 = 0 THEN "White" ELSE "Black"

OwnSquares(data, color) ==
    {p \in Squares : /\ p[1] \in PlayFiles
                     /\ IsOk(RawBoard_get(data, p))
                     /\ Unwrap(RawBoard_get(data, p))[2] = color}

\* the diffs the caller may pick from, g being what get_possible_moves returned
Yielded(g) ==
    IF g.ret[1] = "Returned" /\ IsSome(g.ret[2]) THEN SeqRange(Unwrap(g.ret[2])) ELSE {}

InitGame ==
    /\ board = Board_new
    /\ prev = Board_new
    /\ op = "new"
    /\ arg = Unit
    /\ ret = Unit
    /\ nops = 0

\* one ply: the side to move asks for the legal diffs of one of its pieces
\* and applies one of them
Play ==
    /\ nops < MaxPly
    /\ \E pos \in OwnSquares(board, Turn(nops)) :
          \E d \in Yielded(get_possible_moves(board, pos)) :
              Done(apply(board, d), "apply", d)

NextGame == Play

SpecGame == InitGame /\ [][NextGame]_vars

(***************************************************************************)
(* Lines of sight, stated from the geometry of the board                   *)
(***************************************************************************)
Sliders == {"Rook", "Bishop", "Queen"}
Straight == {<<1, 0>>, <<-1, 0>>, <<0, 1>>, <<0, -1>>}
Diagonal == {<<1, 1>>, <<1, -1>>, <<-1, 1>>, <<-1, -1>>}
SliderDirs(pt) ==
    CASE pt = "Rook" -> Straight
      [] pt = "Bishop" -> Diagonal
      [] pt = "Queen" -> Straight \cup Diagonal

\* the square n steps from p in direction v
Ray(p, v, n) == <<p[1] + n * v[1], p[2] + n * v[2]>>
RayOnBoard(p, v, n) == OnBoard(p[1] + n * v[1], p[2] + n * v[2])
\* no piece stands on the squares 1..n-1 of the line
ClearTo(data, p, v, n) == \A k \in 1..(n - 1) : ~Occupied(data, Ray(p, v, k))

\* the squares a slider on p sees: on the board, nothing in between
Seen(data, p) ==
    {Ray(p, c[1], c[2]) : c \in {c \in SliderDirs(TypeAt(data, p)) \X (1..7) :
                                  RayOnBoard(p, c[1], c[2]) /\ ClearTo(data, p, c[1], c[2])}}

SliderDiffs(data, p) ==
    {Diff(Move, p, t) : t \in {t \in Seen(data, p) : ~Occupied(data, t)}}
    \cup {Diff(Capture(t), p, t) :
            t \in {t \in Seen(data, p) :
                     Occupied(data, t) /\ ColorAt(data, t) # ColorAt(data, p)}}

\* C11: for a Rook, Bishop or Queen the pseudo-legal diffs are, in each
\* direction, a Move to every empty square up to but excluding the first
\* occupied square or the edge, plus a Capture of that first occupied square
\* iff it holds a piece of the opposite colour; nothing lies behind it.
C11_SliderLines ==
    (/\ op = "get_possible_moves_unchecked"
     /\ Occupied(prev, arg)
     /\ TypeAt(prev, arg) \in Sliders) =>
        /\ ret[1] = "Returned"
        /\ IsSome(ret[2])
        /\ SeqRange(Unwrap(ret[2])) = SliderDiffs(prev, arg)
        /\ Len(Unwrap(ret[2])) = Cardinality(SliderDiffs(prev, arg))

\* the white bishop on (1, 2) takes the pawn on (3, 4) and sees nothing of
\* (4, 5) behind it; its own queen's line ends at (2, 1)
C11_Witness ==
    /\ op = "get_possible_moves_unchecked"
    /\ prev = Board_mid
    /\ arg = Pos(1, 2)
    /\ IsSome(ret[2])
    /\ Diff(Capture(Pos(3, 4)), Pos(1, 2), Pos(3, 4)) \in SeqRange(Unwrap(ret[2]))
    /\ Diff(Move, Pos(1, 2), Pos(2, 1)) \in SeqRange(Unwrap(ret[2]))
    /\ \A d \in SeqRange(Unwrap(ret[2])) : d.to \notin {Pos(4, 5), Pos(3, 0)}

Abs(n) == IF n < 0 THEN -n ELSE n
Sgn(n) == IF n < 0 THEN -1 ELSE IF n > 0 THEN 1 ELSE 0
\* the squares strictly between from and to on the straight line joining them
Between(from, to) ==
    {Ray(from, <<Sgn(to[1] - from[1]), Sgn(to[2] - from[2])>>, k) :
        k \in 1..((IF Abs(to[1] - from[1]) > Abs(to[2] - from[2])
                   THEN Abs(to[1] - from[1]) ELSE Abs(to[2] - from[2])) - 1)}

\* C12: no pseudo-legal diff passes through or lands on a piece of the mover's
\* own colour: for every piece other than a knight (the pawn's two-square step
\* included) every square strictly between from and to is empty, and for
\* every piece the to square is empty or holds an opposing piece.
C12_NothingInBetween ==
    (/\ op = "get_possible_moves_unchecked"
     /\ Occupied(prev, arg)) =>
        /\ ret[1] = "Returned"
        /\ IsSome(ret[2])
        /\ \A d \in SeqRange(Unwrap(ret[2])) :
              /\ Occupied(prev, d.to) => ColorAt(prev, d.to) # ColorAt(prev, arg)
              /\ TypeAt(prev, arg) # "Knight" =>
                    \A b \in Between(d.from, d.to) : ~Occupied(prev, b)

\* forward is +y for White and -y for Black
Forward(color) == IF color = "White" THEN 1 ELSE -1
Ahead(p, color, n) == <<p[1], p[2] + n * Forward(color)>>
AheadOnBoard(p, color, n) == OnBoard(p[1], p[2] + n * Forward(color))
DiagonalAhead(p, color) ==
    {t \in {<<p[1] + 1, p[2] + Forward(color)>>, <<p[1] - 1, p[2] + Forward(color)>>} :
        OnBoard(t[1], t[2])}

\* C13: a pawn never captures straight ahead and never moves onto an empty
\* diagonal: a forward step onto an occupied square of either colour gives
\* no diff, a diagonal-forward step gives a Capture iff that square holds an
\* opposing piece, and no diff of a pawn decreases its forward progress.
C13_PawnSteps ==
    (/\ op = "get_possible_moves_unchecked"
     /\ Occupied(prev, arg)
     /\ TypeAt(prev, arg) = "Pawn") =>
        /\ ret[1] = "Returned"
        /\ IsSome(ret[2])
        /\ \A d \in SeqRange(Unwrap(ret[2])) :
              /\ (d.to[2] - arg[2]) * Forward(ColorAt(prev, arg)) > 0
              /\ d.to[1] = arg[1] => d.ty = Move /\ ~Occupied(prev, d.to)
              /\ d.to[1] # arg[1] =>
                    /\ d.to \in DiagonalAhead(arg, ColorAt(prev, arg))
                    /\ d.ty = Capture(d.to)
        /\ \A t \in DiagonalAhead(arg, ColorAt(prev, arg)) :
              (\E d \in SeqRange(Unwrap(ret[2])) : d.to = t)
                  <=> (Occupied(prev, t) /\ ColorAt(prev, t) # ColorAt(prev, arg))

\* the white pawn on (3, 3): a black pawn straight ahead, a black pawn on one
\* diagonal and its own knight on the other
C13_Witness ==
    /\ op = "get_possible_moves_unchecked"
    /\ prev = Board_mid
    /\ arg = Pos(3, 3)
    /\ IsSome(ret[2])
    /\ Diff(Capture(Pos(4, 4)), Pos(3, 3), Pos(4, 4)) \in SeqRange(Unwrap(ret[2]))
    /\ \A d \in SeqRange(Unwrap(ret[2])) : d.to \notin {Pos(3, 4), Pos(2, 4)}

\* C14: the two-square step is offered from every rank: whenever the squares
\* one and two steps ahead of a pawn are both on the board and empty,
\* get_possible_moves_unchecked yields a Move to the square two steps ahead.
C14_DoubleStepAnywhere ==
    (/\ op = "get_possible_moves_unchecked"
     /\ Occupied(prev, arg)
     /\ TypeAt(prev, arg) = "Pawn"
     /\ AheadOnBoard(arg, ColorAt(prev, arg), 2)
     /\ ~Occupied(prev, Ahead(arg, ColorAt(prev, arg), 1))
     /\ ~Occupied(prev, Ahead(arg, ColorAt(prev, arg), 2))) =>
        /\ ret[1] = "Returned"
        /\ IsSome(ret[2])
        /\ Diff(Move, arg, Ahead(arg, ColorAt(prev, arg), 2)) \in SeqRange(Unwrap(ret[2]))

\* the white pawn on (6, 3), two ranks off its starting rank
C14_Witness ==
    /\ op = "get_possible_moves_unchecked"
    /\ prev = Board_mid
    /\ arg = Pos(6, 3)
    /\ ~Occupied(prev, Pos(6, 4))
    /\ ~Occupied(prev, Pos(6, 5))
    /\ IsSome(ret[2])
    /\ Diff(Move, Pos(6, 3), Pos(6, 5)) \in SeqRange(Unwrap(ret[2]))

KnightOffsets == {v \in (-2..2) \X (-2..2) : Abs(v[1]) * Abs(v[2]) = 2}
KingOffsets == {v \in (-1..1) \X (-1..1) : v # <<0, 0>>}
LeaperOffsets(pt) == IF pt = "Knight" THEN KnightOffsets ELSE KingOffsets
\* the squares one offset away from p that are on the board
LeaperTargets(data, p) ==
    {Ray(p, v, 1) : v \in {v \in LeaperOffsets(TypeAt(data, p)) : RayOnBoard(p, v, 1)}}

LeaperDiffs(data, p) ==
    {Diff(Move, p, t) : t \in {t \in LeaperTargets(data, p) : ~Occupied(data, t)}}
    \cup {Diff(Capture(t), p, t) :
            t \in {t \in LeaperTargets(data, p) :
                     Occupied(data, t) /\ ColorAt(data, t) # ColorAt(data, p)}}

\* C15: for a Knight or a King the pseudo-legal diffs are exactly one per
\* template offset (the 8 jumps, the 8 adjacent squares) whose target is on
\* the board and empty (Move) or holds an opposing piece (Capture); a target
\* with an own piece or off the board gives nothing, and no other square's
\* occupancy matters.
C15_Leapers ==
    (/\ op = "get_possible_moves_unchecked"
     /\ Occupied(prev, arg)
     /\ TypeAt(prev, arg) \in {"Knight", "King"}) =>
        /\ ret[1] = "Returned"
        /\ IsSome(ret[2])
        /\ SeqRange(Unwrap(ret[2])) = LeaperDiffs(prev, arg)
        /\ Len(Unwrap(ret[2])) = Cardinality(LeaperDiffs(prev, arg))

\* the white knight on (2, 4): it takes the rook on (0, 5) and the knight on
\* (4, 3), jumps over the pawns next to it and leaves its own bishop on (1, 2)
C15_Witness ==
    /\ op = "get_possible_moves_unchecked"
    /\ prev = Board_mid
    /\ arg = Pos(2, 4)
    /\ IsSome(ret[2])
    /\ Diff(Capture(Pos(0, 5)), Pos(2, 4), Pos(0, 5)) \in SeqRange(Unwrap(ret[2]))
    /\ Diff(Capture(Pos(4, 3)), Pos(2, 4), Pos(4, 3)) \in SeqRange(Unwrap(ret[2]))
    /\ Diff(Move, Pos(2, 4), Pos(4, 5)) \in SeqRange(Unwrap(ret[2]))
    /\ \A d \in SeqRange(Unwrap(ret[2])) : d.to # Pos(1, 2)
    /\ Len(Unwrap(ret[2])) = 7

\* the board seen from the other side: rank y becomes 7 - y and every piece
\* changes colour
MirrorPos(p) == <<p[1], 7 - p[2]>>
MirrorCell(c) == IF c = None THEN None ELSE Some(<<c[2][1], Other(c[2][2])>>)
Mirror(data) == [y \in 0..7 |-> [x \in 0..7 |-> MirrorCell(data[7 - y][x])]]
MirrorDiff(d) ==
    Diff(IF d.ty[1] = "Capture" THEN Capture(MirrorPos(d.ty[2])) ELSE d.ty,
         MirrorPos(d.from), MirrorPos(d.to))

\* C16: move generation is colour-symmetric: mirroring a board vertically and
\* swapping the colour of every piece maps the set of pseudo-legal diffs of
\* each piece onto that of its mirrored image, so is_king_check and
\* game_condition for a colour equal those for the opposite colour on the
\* mirrored board.
C16_ColourSymmetry ==
    /\ (op = "get_possible_moves_unchecked" /\ Occupied(prev, arg)) =>
          /\ ret[1] = "Returned"
          /\ IsSome(ret[2])
          /\ {MirrorDiff(d) : d \in SeqRange(Unwrap(ret[2]))}
                = PseudoLegal(Mirror(prev), MirrorPos(arg))
    /\ (op = "is_king_check") => ret = is_king_check(Mirror(prev), Other(arg))
    /\ (op = "game_condition") => ret = game_condition(Mirror(prev), Other(arg)).ret

\* the black pawn on (4, 4) takes the white pawn on (3, 3); its mirrored
\* image, a white pawn on (4, 3), takes the black pawn on (3, 4)
C16_Witness ==
    /\ op = "get_possible_moves_unchecked"
    /\ prev = Board_mid
    /\ arg = Pos(4, 4)
    /\ IsSome(ret[2])
    /\ Diff(Capture(Pos(3, 3)), Pos(4, 4), Pos(3, 3)) \in SeqRange(Unwrap(ret[2]))
    /\ Diff(Capture(Pos(3, 4)), Pos(4, 3), Pos(3, 4))
          \in PseudoLegal(Mirror(prev), Pos(4, 3))

\* C17: every diff yielded by get_possible_moves_unchecked(pos) or
\* get_possible_moves(pos) is a Move, or a Capture whose cap equals its to;
\* its from is pos and its to is a board square other than pos. No Promote is
\* ever generated, also not for a pawn whose next step reaches the last rank.
C17_GeneratedShape ==
    (/\ op \in {"get_possible_moves", "get_possible_moves_unchecked"}
     /\ ret[1] = "Returned"
     /\ IsSome(ret[2])) =>
        \A d \in SeqRange(Unwrap(ret[2])) :
            /\ d.ty = Move \/ d.ty = Capture(d.to)
            /\ d.ty[1] # "Promote"
            /\ d.from = arg
            /\ d.to \in Squares
            /\ d.to # arg

\* the white pawn on (0, 6) steps onto the last rank with a plain Move
C17_Witness ==
    /\ op = "get_possible_moves"
    /\ prev = Board_far
    /\ arg = Pos(0, 6)
    /\ ret[1] = "Returned"
    /\ IsSome(ret[2])
    /\ SeqRange(Unwrap(ret[2])) = {Diff(Move, Pos(0, 6), Pos(0, 7))}

\* the squares a Move or Capture names
Named(d) == {d.from, d.to} \cup (IF d.ty[1] = "Capture" THEN {d.ty[2]} ELSE {})

\* C18 (as stated): a successful apply changes only the squares the diff
\* names: after Move{from, to} the to square holds the piece that was on from
\* and from is empty; after Capture{from, to, cap} to holds the piece, from is
\* empty and cap is empty unless cap = to; every other square keeps its occupant.
C18_ApplyFrame ==
    (/\ op = "apply"
     /\ IsOk(ret)
     /\ arg.ty[1] \in {"Move", "Capture"}) =>
        /\ At(board, arg.to) = At(prev, arg.from)
        /\ ~Occupied(board, arg.from)
        /\ (arg.ty[1] = "Capture" /\ arg.ty[2] # arg.to) => ~Occupied(board, arg.ty[2])
        /\ \A p \in Squares \ Named(arg) : At(board, p) = At(prev, p)

\* C18 (amended): as above, but from is empty unless from = to, in which case
\* the piece stays where it is.
C18_ApplyFrameAmended ==
    (/\ op = "apply"
     /\ IsOk(ret)
     /\ arg.ty[1] \in {"Move", "Capture"}) =>
        /\ At(board, arg.to) = At(prev, arg.from)
        /\ arg.from # arg.to => ~Occupied(board, arg.from)
        /\ (arg.ty[1] = "Capture" /\ arg.ty[2] # arg.to) => ~Occupied(board, arg.ty[2])
        /\ \A p \in Squares \ Named(arg) : At(board, p) = At(prev, p)

\* a Capture whose to is its from: the pawn on (0, 6) stays, the pawn on
\* (0, 1) is taken
C18_Witness ==
    /\ op = "apply"
    /\ IsOk(ret)
    /\ prev = Board_far
    /\ arg = Diff(Capture(Pos(0, 1)), Pos(0, 6), Pos(0, 6))
    /\ At(board, Pos(0, 6)) = At(prev, Pos(0, 6))
    /\ ~Occupied(board, Pos(0, 1))

Conditions == {"Check", "Mate", "Safe", "Stale"}

\* C19: every diff yielded by get_possible_moves_unchecked on a board applies
\* successfully to that same board, so the unwrap in the legality filter
\* never panics; is_king_check and game_condition complete without panic and
\* return a value on every board, also with no king, several kings or no piece.
C19_NoPanic ==
    /\ (op = "get_possible_moves_unchecked" /\ IsSome(ret[2])) =>
          \A d \in SeqRange(Unwrap(ret[2])) : apply(prev, d).ret = Ok(Unit)
    /\ (op = "get_possible_moves") => ret[1] = "Returned"
    /\ (op = "is_king_check") => ret[1] = "Returned" /\ ret[2] \in BOOLEAN
    /\ (op = "game_condition") => ret[1] = "Returned" /\ ret[2] \in Conditions

\* two white kings and no black one: Black has no king to be in check, and
\* its queen has moves
C19_Witness ==
    /\ op = "game_condition"
    /\ prev = Board_kings
    /\ arg = "Black"
    /\ ret = Returned("Safe")

KingCount(data, color) ==
    Cardinality({p \in Squares : At(data, p) = Some(<<"King", color>>)})

\* C20: from Board::new(), White and Black moving in turn and applying only
\* diffs yielded by get_possible_moves for their own pieces, every reachable
\* board holds exactly one White and one Black king, and the side that has
\* just moved is never in check.
C20_KingsSurvive ==
    /\ KingCount(board, "White") = 1
    /\ KingCount(board, "Black") = 1
    /\ (op = "apply") =>
          /\ ret = Ok(Unit)
          /\ ~Attacked(board, ColorAt(prev, arg.from))

\* Black was in check and has answered it
C20_Witness ==
    /\ op = "apply"
    /\ ColorAt(prev, arg.from) = "Black"
    /\ Attacked(prev, "Black")
    /\ ~Attacked(board, "Black")

\* the number of pieces of one type and colour on a board
Count(data, pt, color) ==
    Cardinality({p \in Squares : At(data, p) = Some(<<pt, color>>)})
Kinds == PieceType \X Color
Total(data) == Cardinality({p \in Squares : Occupied(data, p)})

\* C21: applying a diff that get_possible_moves_unchecked yields on the board
\* conserves the pieces: a Move leaves the number of pieces of every colour
\* and type as it was, a Capture removes exactly one piece, of the colour
\* opposite to the mover, and nothing else; the number of pieces never grows
\* and no piece changes type or colour.
C21_PiecesConserved ==
    (/\ op = "apply"
     /\ Occupied(prev, arg.from)
     /\ arg \in PseudoLegal(prev, arg.from)) =>
        /\ ret = Ok(Unit)
        /\ Total(board) <= Total(prev)
        /\ At(board, arg.to) = At(prev, arg.from)
        /\ arg.ty = Move =>
              \A k \in Kinds : Count(board, k[1], k[2]) = Count(prev, k[1], k[2])
        /\ arg.ty # Move =>
              /\ Total(board) = Total(prev) - 1
              /\ ColorAt(prev, arg.to) # ColorAt(prev, arg.from)
              /\ \A k \in Kinds :
                    Count(board, k[1], k[2])
                      = Count(prev, k[1], k[2])
                          - (IF At(prev, arg.to) = Some(k) THEN 1 ELSE 0)

\* the white pawn on (3, 3) takes the black pawn on (4, 4): one black pawn
\* less, everything else as before
C21_Witness ==
    /\ op = "apply"
    /\ prev = Board_mid
    /\ arg = Diff(Capture(Pos(4, 4)), Pos(3, 3), Pos(4, 4))
    /\ ret = Ok(Unit)
    /\ Count(prev, "Pawn", "Black") = 2
    /\ Count(board, "Pawn", "Black") = 1
    /\ Count(board, "Pawn", "White") = 2
    /\ Total(board) = Total(prev) - 1

====
